---- MODULE Spec2Model ----
(***************************************************************************)
(* A model of flasker: the Project singleton of flasker/project.py         *)
(* (construction, configuration merge, thread-local lookup, database       *)
(* teardown) and the Google sign-in handlers of flasker/core/oauth.py.     *)
(*                                                                         *)
(* Python strings are sequences of one-character strings, so that lower,   *)
(* strip, split, re.sub, dirname and splitext are computed, not assumed.   *)
(***************************************************************************)
EXTENDS Integers, Sequences, FiniteSets, TLC

VARIABLES
  registered,      \* Project.__state['_Project__registered'], class default False
  config,          \* Project.config: section -> key -> typed value
  root_dir,        \* Project.__state['root_dir']
  domain,          \* Project.__state['domain']
  subdomain,       \* Project.__state['subdomain']
  sys_path,        \* the entries this module appended to sys.path
  session,         \* Project.__state['session']: "unset", "None" or "scoped"
  local_current,   \* _local_storage._current_project, per thread: is it set
  last,            \* what the most recent Project operation was given and did
  started,         \* has flasker.core.oauth been imported (User.populate has run)
  all,             \* User.__all__: email -> User
  current_user,    \* the identity flask.login holds for the browser session
  pc,              \* where the request being served stands
  request,         \* the request being served, or the last one served
  calls,           \* the calls this request made to the provider, with their answers
  log,             \* the log entries this request emitted
  flask_login,     \* the login_user / logout_user calls this request made
  response         \* the response to the last request served

projectVars ==
  <<registered, config, root_dir, domain, subdomain, sys_path, session,
    local_current, last>>

oauthVars ==
  <<started, all, current_user, pc, request, calls, log, flask_login, response>>

vars == <<projectVars, oauthVars>>

-----------------------------------------------------------------------------
(* Bounds *)

NumThreads == 2

\* the longest AUTHORIZED_EMAILS value tried
MaxLen == 3

Threads == 1..NumThreads

-----------------------------------------------------------------------------
(* Python string functions *)

UpperCase ==
  <<"A","B","C","D","E","F","G","H","I","J","K","L","M",
    "N","O","P","Q","R","S","T","U","V","W","X","Y","Z">>

LowerCase ==
  <<"a","b","c","d","e","f","g","h","i","j","k","l","m",
    "n","o","p","q","r","s","t","u","v","w","x","y","z">>

Digits == {"0","1","2","3","4","5","6","7","8","9"}

Range(s) == {s[i] : i \in DOMAIN s}

UpperSet == Range(UpperCase)

lower_char(c) ==
  IF c \in UpperSet
  THEN LowerCase[CHOOSE i \in DOMAIN UpperCase : UpperCase[i] = c]
  ELSE c

\* str.lower()
lower(s) == [i \in 1..Len(s) |-> lower_char(s[i])]

\* str.isdigit()
isdigit(s) == s # <<>> /\ \A i \in 1..Len(s) : s[i] \in Digits

\* the regular expression class \w
WordChars == Range(UpperCase) \cup Range(LowerCase) \cup Digits \cup {"_"}

IsWordChar(c) == c \in WordChars

RECURSIVE skip_nonword(_)
skip_nonword(s) ==
  IF s # <<>> /\ ~IsWordChar(Head(s)) THEN skip_nonword(Tail(s)) ELSE s

\* re.sub(r'\W+', '_', s)
RECURSIVE sub_nonword(_)
sub_nonword(s) ==
  IF s = <<>> THEN <<>>
  ELSE IF IsWordChar(Head(s)) THEN <<Head(s)>> \o sub_nonword(Tail(s))
  ELSE <<"_">> \o sub_nonword(skip_nonword(s))

\* str.rfind(c), 1-based; 0 when c does not occur
rfind(s, c) ==
  IF \E i \in 1..Len(s) : s[i] = c
  THEN CHOOSE i \in 1..Len(s) : s[i] = c /\ \A j \in (i+1)..Len(s) : s[j] # c
  ELSE 0

\* str.replace(a, b) for one-character a and b
replace(s, a, b) == [i \in 1..Len(s) |-> IF s[i] = a THEN b ELSE s[i]]

RECURSIVE rstrip_char(_, _)
rstrip_char(s, c) ==
  IF s # <<>> /\ s[Len(s)] = c THEN rstrip_char(SubSeq(s, 1, Len(s) - 1), c) ELSE s

\* the working directory abspath resolves relative paths against
Cwd == <<"/","s","r","v">>

\* os.path.abspath, on paths with no '.', '..' or doubled separators
abspath(p) == IF p # <<>> /\ p[1] = "/" THEN p ELSE Cwd \o <<"/">> \o p

\* os.path.dirname
dirname(p) ==
  LET head == SubSeq(p, 1, rfind(p, "/"))
  IN  IF head # <<>> /\ Range(head) # {"/"} THEN rstrip_char(head, "/") ELSE head

\* os.path.splitext(p)[0]
splitext_root(p) ==
  LET sepIndex == rfind(p, "/")
      dotIndex == rfind(p, ".")
  IN  IF dotIndex > sepIndex /\ \E k \in (sepIndex+1)..(dotIndex-1) : p[k] # "."
      THEN SubSeq(p, 1, dotIndex - 1)
      ELSE p

-----------------------------------------------------------------------------
(* Typed configuration values *)

PyStr(s) == [type |-> "str", v |-> s]
PyTrue == [type |-> "bool", v |-> <<"T","r","u","e">>]
PyFalse == [type |-> "bool", v |-> <<"F","a","l","s","e">>]
PyInt(digits) == [type |-> "int", v |-> digits]
Unset == [type |-> "unset", v |-> <<>>]

RECURSIVE strip_zeros(_)
strip_zeros(s) == IF Len(s) > 1 /\ Head(s) = "0" THEN strip_zeros(Tail(s)) ELSE s

\* flasker.util.convert: "true"/"false" in any case become booleans, digit
\* strings integers, anything else stays a string
convert(raw) ==
  IF lower(raw) = <<"t","r","u","e">> THEN PyTrue
  ELSE IF lower(raw) = <<"f","a","l","s","e">> THEN PyFalse
  ELSE IF isdigit(raw) THEN PyInt(strip_zeros(raw))
  ELSE PyStr(raw)

\* Python truth value of a configuration value
Truthy(val) ==
  CASE val.type = "str" -> val.v # <<>>
    [] val.type = "int" -> val.v # <<"0">>
    [] val.type = "bool" -> val = PyTrue
    [] OTHER -> FALSE

\* a or b
PyOr(a, b) == IF Truthy(a) THEN a ELSE b

-----------------------------------------------------------------------------
(* Project.config, the compiled-in defaults *)

DefaultConfig ==
  [s \in {"PROJECT", "ENGINE", "FLASK", "CELERY"} |->
     CASE s = "PROJECT" ->
            [k \in {"NAME", "DOMAIN", "SUBDOMAIN", "MODULES", "FLASK_ROOT_FOLDER",
                    "FLASK_STATIC_FOLDER", "FLASK_TEMPLATE_FOLDER",
                    "COMMIT_ON_TEARDOWN"} |->
               CASE k = "FLASK_ROOT_FOLDER" -> PyStr(<<"a","p","p">>)
                 [] k = "FLASK_STATIC_FOLDER" -> PyStr(<<"s","t","a","t","i","c">>)
                 [] k = "FLASK_TEMPLATE_FOLDER" ->
                      PyStr(<<"t","e","m","p","l","a","t","e","s">>)
                 [] k = "COMMIT_ON_TEARDOWN" -> PyTrue
                 [] OTHER -> PyStr(<<>>)]
       [] s = "ENGINE" ->
            [k \in {"URL"} |-> PyStr(<<"s","q","l","i","t","e",":","/","/">>)]
       [] s = "FLASK" ->
            [k \in {"SECRET_KEY"} |->
               PyStr(<<"a","_","d","e","f","a","u","l","t","_","u","n","s","a","f","e",
                     "_","k","e","y">>)]
       [] OTHER ->
            [k \in {"BROKER_URL", "CELERY_RESULT_BACKEND", "CELERY_SEND_EVENTS"} |->
               IF k = "CELERY_SEND_EVENTS" THEN PyTrue
               ELSE PyStr(<<"r","e","d","i","s",":","/","/">>)]]

-----------------------------------------------------------------------------
(* The inputs: configuration paths and the files found there *)

Paths == { <<"a",".","c","f","g">>, <<"e","t","c","/","b",".","c","f","g">> }

NoPathArg == [given |-> FALSE, path |-> <<>>]

\* config_path: None or a path
PathArgs == {NoPathArg} \cup {[given |-> TRUE, path |-> p] : p \in Paths}

\* the raw text a file may give to each key of each section
FileKeyValues ==
  [s \in {"PROJECT", "EXTRA"} |->
     CASE s = "PROJECT" ->
            [k \in {"NAME", "DOMAIN", "COMMIT_ON_TEARDOWN"} |->
               CASE k = "NAME" -> { <<>>, <<"M","y"," ","!","P">>, <<"7">> }
                 [] k = "DOMAIN" -> { <<"d",".","i","o">> }
                 [] OTHER -> { <<"f","a","l","s","e">> }]
       [] OTHER -> [k \in {"K"} |-> { <<"v">> }]]

SectionBodies(s) ==
  UNION { { b \in [K -> UNION {FileKeyValues[s][k] : k \in K}] :
              \A k \in K : b[k] \in FileKeyValues[s][k] } :
          K \in (SUBSET DOMAIN FileKeyValues[s]) \ {{}} }

\* a file's text as section -> key -> raw string
FileContents ==
  UNION { { f \in [S -> UNION {SectionBodies(s) : s \in S}] :
              \A s \in S : f[s] \in SectionBodies(s) } :
          S \in SUBSET DOMAIN FileKeyValues }

Unreadable == [readable |-> FALSE, content |-> <<>>]

\* what open(config_path) finds
FileArgs == {Unreadable} \cup {[readable |-> TRUE, content |-> f] : f \in FileContents}

-----------------------------------------------------------------------------
(* flasker/project.py *)

\* make=False; make=True and _make returns; make=True and an import in _make raises
MakeChoices == {"no make", "ok", "ImportError"}

CommitOutcomes == {"ok", "InvalidRequestError", "OperationalError"}

\* the record of an operation: what it was given, what it raised, what it
\* called on the scoped session, whether it yielded a Project
NoOp ==
  [op |-> "none", arg |-> NoPathArg, opened |-> FALSE, file |-> Unreadable, raised |-> "none",
   calls |-> <<>>, commit |-> "none", yielded |-> FALSE]

InitOp(arg) == [NoOp EXCEPT !.op = "init", !.arg = arg]

\* dict((s, dict((k, convert(v)) for (k, v) in parser.items(s))) for s in sections)
parsed(content) ==
  [s \in DOMAIN content |-> [k \in DOMAIN content[s] |-> convert(content[s][k])]]

\* Project._parse_config: what it raises, and the dictionary it returns
parse_config(file) ==
  IF ~file.readable
  THEN [raised |-> "ProjectImportError", conf |-> <<>>]
  ELSE LET conf == parsed(file.content)
       IN  IF "PROJECT" \notin DOMAIN conf \/ "NAME" \notin DOMAIN conf["PROJECT"]
           THEN [raised |-> "KeyError", conf |-> <<>>]
           ELSE IF ~Truthy(conf["PROJECT"]["NAME"])
           THEN [raised |-> "ProjectImportError", conf |-> <<>>]
           ELSE [raised |-> "none", conf |-> conf]

\* dict.update
update(d, e) == [k \in DOMAIN d \cup DOMAIN e |-> IF k \in DOMAIN e THEN e[k] ELSE d[k]]

\* the loop of Project.__init__ over the parsed sections
merge(cfg, conf) ==
  [s \in DOMAIN cfg \cup DOMAIN conf |->
     IF s \notin DOMAIN conf THEN cfg[s]
     ELSE IF s \in DOMAIN cfg THEN update(cfg[s], conf[s])
     ELSE conf[s]]

\* a slip: an explicit path registers again over the first registration
needs_registration_reparse(reg, arg) == ~reg \/ arg.given

\* if not self.__registered
needs_registration(reg, arg) == ~reg

\* NAME.lower() is evaluated when DOMAIN is false, and only a string has lower
lower_raises(cfg) ==
  ~Truthy(cfg["PROJECT"]["DOMAIN"]) /\ cfg["PROJECT"]["NAME"].type # "str"

derive_domain(cfg) ==
  PyOr(cfg["PROJECT"]["DOMAIN"], PyStr(sub_nonword(lower(cfg["PROJECT"]["NAME"].v))))

derive_subdomain(cfg, config_path) ==
  PyOr(cfg["PROJECT"]["SUBDOMAIN"], PyStr(replace(splitext_root(config_path), "/", "-")))

\* Project.__init__ from its first statement after the config_path check:
\* parse, merge, derive, register, make
register(arg, file) ==
  LET op == [InitOp(arg) EXCEPT !.opened = TRUE, !.file = file]
      p == parse_config(file)
      merged == merge(config, p.conf)
      dir == dirname(abspath(arg.path))
  IN  IF p.raised # "none"
      THEN /\ last' = [op EXCEPT !.raised = p.raised]
           /\ UNCHANGED <<registered, config, root_dir, domain, subdomain,
                          sys_path, session>>
      ELSE /\ config' = merged
           /\ root_dir' = PyStr(dir)
           /\ IF lower_raises(merged)
              THEN /\ last' = [op EXCEPT !.raised = "AttributeError"]
                   /\ UNCHANGED <<registered, domain, subdomain, sys_path, session>>
              ELSE /\ domain' = derive_domain(merged)
                   /\ subdomain' = derive_subdomain(merged, arg.path)
                   /\ sys_path' = Append(sys_path, dir)
                   /\ registered' = TRUE
                   /\ \E made \in MakeChoices :
                        /\ session' = IF made = "ok" THEN "scoped" ELSE "None"
                        /\ last' = [op EXCEPT !.raised =
                                      IF made = "ImportError" THEN made ELSE "none"]

\* Project(config_path, make) in thread t
Project_init(t) ==
  \E arg \in PathArgs :
    /\ local_current' = [local_current EXCEPT ![t] = TRUE]
    /\ IF ~needs_registration(registered, arg)
       THEN /\ last' = InitOp(arg)
            /\ UNCHANGED <<registered, config, root_dir, domain, subdomain,
                           sys_path, session>>
       ELSE IF ~arg.given
       THEN /\ last' = [InitOp(arg) EXCEPT !.raised = "ProjectImportError"]
            /\ UNCHANGED <<registered, config, root_dir, domain, subdomain,
                           sys_path, session>>
       ELSE \E file \in FileArgs : register(arg, file)
    /\ UNCHANGED oauthVars

ResolveOp == [NoOp EXCEPT !.op = "resolve"]

\* is _local_storage._current_project true in thread t
local_project_set(t) == local_current[t]

\* _get_current_project, what the proxy current_project resolves to in thread t
get_current_project(t) ==
  /\ IF local_project_set(t)
     THEN /\ last' = [ResolveOp EXCEPT !.yielded = TRUE]
          /\ UNCHANGED local_current
     ELSE /\ local_current' = [local_current EXCEPT ![t] = TRUE]
          /\ last' = IF needs_registration(registered, NoPathArg)
                     THEN [ResolveOp EXCEPT !.raised = "ProjectImportError"]
                     ELSE [ResolveOp EXCEPT !.yielded = TRUE]
  /\ UNCHANGED <<registered, config, root_dir, domain, subdomain, sys_path, session>>
  /\ UNCHANGED oauthVars

\* the try block of _dismantle_database_connections
try_block(commit_on, outcome) ==
  IF ~commit_on THEN [calls |-> <<>>, raised |-> "none"]
  ELSE [calls |-> <<"commit">>, raised |-> IF outcome = "ok" THEN "none" ELSE outcome]

\* except InvalidRequestError as e: rollback, expunge_all, raise e
except_block(r) ==
  IF r.raised = "InvalidRequestError"
  THEN [r EXCEPT !.calls = r.calls \o <<"rollback", "expunge_all">>]
  ELSE r

\* a slip: the release after the try statement instead of in its finally clause
release_after_try(r) ==
  IF r.raised = "none" THEN [r EXCEPT !.calls = Append(r.calls, "remove")] ELSE r

\* finally: self.session.remove()
finally_block(r) == [r EXCEPT !.calls = Append(r.calls, "remove")]

TeardownOp == [NoOp EXCEPT !.op = "teardown"]

\* Project._dismantle_database_connections
dismantle_database_connections ==
  \E outcome \in CommitOutcomes :
    LET commit_on == Truthy(config["PROJECT"]["COMMIT_ON_TEARDOWN"])
        r == finally_block(except_block(try_block(commit_on, outcome)))
    IN  /\ last' = IF session # "scoped"
                   THEN [TeardownOp EXCEPT !.raised = "AttributeError"]
                   ELSE [TeardownOp EXCEPT
                           !.commit = IF commit_on THEN outcome ELSE "none",
                           !.calls = r.calls, !.raised = r.raised]
        /\ UNCHANGED <<registered, config, root_dir, domain, subdomain, sys_path,
                       session, local_current>>
        /\ UNCHANGED oauthVars

ProjectInit ==
  /\ registered = FALSE
  /\ config = DefaultConfig
  /\ root_dir = Unset
  /\ domain = Unset
  /\ subdomain = Unset
  /\ sys_path = <<>>
  /\ session = "unset"
  /\ local_current = [t \in Threads |-> FALSE]
  /\ last = NoOp

ProjectNext ==
  \/ \E t \in Threads : Project_init(t)
  \/ \E t \in Threads : get_current_project(t)
  \/ dismantle_database_connections

-----------------------------------------------------------------------------
(* flasker/core/oauth.py: the User directory *)

Whitespace == {" "}

RECURSIVE lstrip(_)
lstrip(s) == IF s # <<>> /\ Head(s) \in Whitespace THEN lstrip(Tail(s)) ELSE s

RECURSIVE rstrip(_)
rstrip(s) ==
  IF s # <<>> /\ s[Len(s)] \in Whitespace THEN rstrip(SubSeq(s, 1, Len(s) - 1)) ELSE s

\* str.strip()
strip(s) == rstrip(lstrip(s))

\* str.find(c), 1-based; 0 when c does not occur
find(s, c) ==
  IF \E i \in 1..Len(s) : s[i] = c
  THEN CHOOSE i \in 1..Len(s) : s[i] = c /\ \A j \in 1..(i-1) : s[j] # c
  ELSE 0

\* str.split(c)
RECURSIVE split(_, _)
split(s, c) ==
  IF find(s, c) = 0 THEN <<s>>
  ELSE <<SubSeq(s, 1, find(s, c) - 1)>> \o split(SubSeq(s, find(s, c) + 1, Len(s)), c)

\* User(email)
User(email) == [id |-> email]

\* a slip: the items are not stripped
authorized_items_unstripped(value) ==
  {split(value, ",")[i] : i \in {j \in DOMAIN split(value, ",") : strip(split(value, ",")[j]) # <<>>}}

\* email.strip() for email in value.split(',') if email.strip()
authorized_items(value) ==
  {strip(split(value, ",")[i]) :
     i \in {j \in DOMAIN split(value, ",") : strip(split(value, ",")[j]) # <<>>}}

\* User.populate
populate(authorized_emails) == [email \in authorized_emails |-> User(email)]

NoUser == [id |-> <<>>, found |-> FALSE]

\* User.get_from_id: the User, or None
get_from_id(id) ==
  IF id \in DOMAIN all THEN [id |-> all[id].id, found |-> TRUE] ELSE NoUser

\* the module body of flasker.core.oauth, run once when _make imports it
ImportOAuth ==
  /\ ~started
  /\ started' = TRUE
  /\ all' = populate(authorized_items(config["PROJECT"]["AUTHORIZED_EMAILS"].v))
  /\ UNCHANGED <<current_user, pc, request, calls, log, flask_login, response>>
  /\ UNCHANGED projectVars

-----------------------------------------------------------------------------
(* flasker/core/oauth.py: requests and responses *)

Absent == "(absent)"

Tokens == {"tok1", "tok2"}

\* request.args: the query parameters the handlers read
RequestArgs ==
  [access_token : Tokens \cup {Absent},
   state : {"/page", Absent},
   next : {"/next", Absent}]

NoArgs == [access_token |-> Absent, state |-> Absent, next |-> Absent]

Anonymous == [authenticated |-> FALSE, id |-> <<>>]

Identity(user) == [authenticated |-> TRUE, id |-> user.id]

\* get_params
get_params(args) ==
  [scope |-> "https://www.googleapis.com/auth/userinfo.email",
   redirect_uri |-> "url_root + oauth2callback",
   response_type |-> "token",
   state |-> IF args.next # Absent THEN args.next ELSE "/",
   client_id |-> "CLIENT_ID"]

\* get_google_login_url: the endpoint and the parameters urlencode is given
get_google_login_url(args) ==
  [endpoint |-> "https://accounts.google.com/o/oauth2/auth",
   params |-> get_params(args)]

NoUrl ==
  [endpoint |-> "",
   params |-> [scope |-> "", redirect_uri |-> "", response_type |-> "",
               state |-> "", client_id |-> ""]]

NoResponse ==
  [kind |-> "none", template |-> "", header |-> "", color |-> "",
   sign_in_url |-> NoUrl, catch_token_url |-> "", location |-> "", error |-> ""]

\* render_template('sign_in_out.html', **values)
sign_in_out(header, color, url) ==
  [NoResponse EXCEPT !.kind = "render", !.template = "sign_in_out.html",
                     !.header = header, !.color = color, !.sign_in_url = url]

\* redirect(location)
redirect(location) == [NoResponse EXCEPT !.kind = "redirect", !.location = location]

\* an exception leaving the handler
Raised(error) == [NoResponse EXCEPT !.kind = "error", !.error = error]

LogEntry(level, msg, arg) == [level |-> level, msg |-> msg, arg |-> arg]

\* login_user(user) or logout_user()
LoginCall(call, id) == [call |-> call, id |-> id]

\* @bp.route('/sign_in')
sign_in ==
  \E args \in RequestArgs :
    /\ started /\ pc = "idle"
    /\ request' = [handler |-> "sign_in", args |-> args]
    /\ calls' = <<>> /\ log' = <<>> /\ flask_login' = <<>>
    /\ response' = sign_in_out("Welcome!", "primary", get_google_login_url(args))
    /\ UNCHANGED <<started, all, current_user, pc>>
    /\ UNCHANGED projectVars

\* @bp.route('/oauth2callback')
oauth2callback ==
  \E args \in RequestArgs :
    /\ started /\ pc = "idle"
    /\ request' = [handler |-> "oauth2callback", args |-> args]
    /\ calls' = <<>> /\ flask_login' = <<>>
    /\ log' = <<LogEntry("debug",
                         "Callback call from google. Tranferring to catch the token.",
                         <<>>)>>
    /\ response' = [NoResponse EXCEPT !.kind = "render",
                                      !.template = "get_token_from_hash.html",
                                      !.catch_token_url = "/catch_token"]
    /\ UNCHANGED <<started, all, current_user, pc>>
    /\ UNCHANGED projectVars

\* a slip: logout_user without the log entry, whoever asks
sign_out_effects_always(user) ==
  [log |-> <<>>, flask_login |-> <<LoginCall("logout_user", <<>>)>>,
   current_user |-> Anonymous]

\* if current_user.is_authenticated(): current_user.info('Signed out.'); logout_user()
sign_out_effects(user) ==
  IF user.authenticated
  THEN [log |-> <<LogEntry("info", "Signed out.", user.id)>>,
        flask_login |-> <<LoginCall("logout_user", <<>>)>>,
        current_user |-> Anonymous]
  ELSE [log |-> <<>>, flask_login |-> <<>>, current_user |-> user]

\* @bp.route('/sign_out')
sign_out ==
  \E args \in RequestArgs :
    /\ started /\ pc = "idle"
    /\ request' = [handler |-> "sign_out", args |-> args]
    /\ calls' = <<>>
    /\ log' = sign_out_effects(current_user).log
    /\ flask_login' = sign_out_effects(current_user).flask_login
    /\ current_user' = sign_out_effects(current_user).current_user
    /\ response' = sign_in_out("Goodbye", "success", get_google_login_url(args))
    /\ UNCHANGED <<started, all, pc>>
    /\ UNCHANGED projectVars

-----------------------------------------------------------------------------
(* flasker/core/oauth.py: catch_token, one step per blocking provider call *)

\* a call to the provider: urlopen has not returned yet ("pending"), returned a
\* JSON object with these keys ("done"), or raised ("URLError")
Call(kind, token) ==
  [kind |-> kind, token |-> token, status |-> "pending", keys |-> {}, email |-> <<>>]

\* what the token-info endpoint may answer
TokenInfoAnswers ==
  { [status |-> "done", keys |-> {"audience", "expires_in"}, email |-> <<>>],
    [status |-> "done", keys |-> {"error"}, email |-> <<>>],
    [status |-> "done", keys |-> {"error", "error_description"}, email |-> <<>>],
    [status |-> "URLError", keys |-> {}, email |-> <<>>] }

\* the emails the user-info endpoint may name: every authorized one, and others
\* that differ from an authorized one in case or in surrounding whitespace
EmailAnswers == DOMAIN all \cup { <<"a">>, <<"A">>, <<"a", " ">> }

\* what the user-info endpoint may answer
UserInfoAnswers ==
  { [status |-> "done", keys |-> {"id", "email"}, email |-> e] : e \in EmailAnswers }
    \cup { [status |-> "done", keys |-> {"id"}, email |-> <<>>],
           [status |-> "URLError", keys |-> {}, email |-> <<>>] }

answered(call, answer) ==
  [call EXCEPT !.status = answer.status, !.keys = answer.keys, !.email = answer.email]

\* a slip: the answer is not looked at
validate_token_always(token_info) == TRUE

\* validate_token, given the parsed answer: 'error' in token_info gives False
validate_token(token_info) == "error" \notin token_info.keys

\* a slip: the lookup ignores case
get_from_id_any_case(id) ==
  IF \E k \in DOMAIN all : lower(k) = lower(id)
  THEN [id |-> all[CHOOSE k \in DOMAIN all : lower(k) = lower(id)].id, found |-> TRUE]
  ELSE NoUser

\* user = User.get_from_id(user_infos['email'])
lookup_user(id) == get_from_id(id)

\* return redirect(request.args['state'])
redirect_to_state(args) ==
  IF args.state = Absent THEN Raised("BadRequestKeyError") ELSE redirect(args.state)

\* catch_token up to the urlopen of validate_token
catch_token ==
  \E args \in RequestArgs :
    /\ started /\ pc = "idle"
    /\ request' = [handler |-> "catch_token", args |-> args]
    /\ flask_login' = <<>>
    /\ IF args.access_token = Absent
       THEN /\ calls' = <<>> /\ log' = <<>>
            /\ response' = Raised("BadRequestKeyError")
            /\ pc' = "idle"
       ELSE /\ log' = <<LogEntry("debug", "Successfully caught access token.", <<>>)>>
            /\ calls' = <<Call("validate_token", args.access_token)>>
            /\ response' = NoResponse
            /\ pc' = "validate_token"
    /\ UNCHANGED <<started, all, current_user>>
    /\ UNCHANGED projectVars

\* catch_token from the return of validate_token's urlopen to the urlopen of
\* get_user_info_from_token
token_info_answer ==
  \E answer \in TokenInfoAnswers :
    /\ pc = "validate_token"
    /\ IF answer.status = "URLError"
       THEN /\ calls' = <<answered(calls[1], answer)>>
            /\ log' = log
            /\ response' = Raised("URLError")
            /\ pc' = "idle"
       ELSE IF ~validate_token(answer)
       THEN /\ calls' = <<answered(calls[1], answer)>>
            /\ log' = Append(log, LogEntry("warn", "Access token is invalid.", <<>>))
            /\ response' = sign_in_out("Invalid token", "danger",
                                       get_google_login_url(request.args))
            /\ pc' = "idle"
       ELSE /\ calls' = <<answered(calls[1], answer),
                          Call("get_user_info", request.args.access_token)>>
            /\ log' = Append(log, LogEntry("debug", "Access token is valid.", <<>>))
            /\ response' = NoResponse
            /\ pc' = "get_user_info"
    /\ UNCHANGED <<started, all, current_user, request, flask_login>>
    /\ UNCHANGED projectVars

\* catch_token from the return of get_user_info_from_token's urlopen to its end
user_info_answer ==
  \E answer \in UserInfoAnswers :
    LET gathered == Append(log, LogEntry("debug", "Gathered user infos successfully.",
                                         <<>>))
        user == lookup_user(answer.email)
    IN  /\ pc = "get_user_info"
        /\ calls' = <<calls[1], answered(calls[2], answer)>>
        /\ pc' = "idle"
        /\ IF answer.status = "URLError"
           THEN /\ log' = log
                /\ response' = Raised("URLError")
                /\ UNCHANGED <<current_user, flask_login>>
           ELSE IF "email" \notin answer.keys
           THEN /\ log' = gathered
                /\ response' = Raised("KeyError")
                /\ UNCHANGED <<current_user, flask_login>>
           ELSE IF user.found
           THEN /\ flask_login' = <<LoginCall("login_user", user.id)>>
                /\ current_user' = Identity(user)
                /\ log' = Append(gathered, LogEntry("info", "Signed in.", user.id))
                /\ response' = redirect_to_state(request.args)
           ELSE /\ log' = Append(gathered,
                                 LogEntry("warn", "%s tried to sign in.", answer.email))
                /\ response' = sign_in_out("Unauthorized", "warning",
                                           get_google_login_url(request.args))
                /\ UNCHANGED <<current_user, flask_login>>
        /\ UNCHANGED <<started, all, request>>
        /\ UNCHANGED projectVars

-----------------------------------------------------------------------------
(* The two specifications *)

EmailAlphabet == {"a", "A", " ", ","}

\* the AUTHORIZED_EMAILS values tried
EmailStrings == UNION {[1..n -> EmailAlphabet] : n \in 0..MaxLen}

\* before flasker.core.oauth is imported
OAuthOff ==
  /\ started = FALSE
  /\ all = <<>>
  /\ current_user = Anonymous
  /\ pc = "idle"
  /\ request = [handler |-> "none", args |-> NoArgs]
  /\ calls = <<>>
  /\ log = <<>>
  /\ flask_login = <<>>
  /\ response = NoResponse

\* Project('a.cfg') has registered, in thread 1, from a file that gives
\* PROJECT.NAME and PROJECT.AUTHORIZED_EMAILS, and _make has reached its imports
RegisteredWith(authorized_emails) ==
  LET path == <<"a", ".", "c", "f", "g">>
      file == [readable |-> TRUE,
               content |-> [s \in {"PROJECT"} |->
                              [k \in {"NAME", "AUTHORIZED_EMAILS"} |->
                                 IF k = "NAME" THEN <<"D", "e", "m", "o">>
                                 ELSE authorized_emails]]]
      cfg == merge(DefaultConfig, parse_config(file).conf)
  IN  /\ registered = TRUE
      /\ config = cfg
      /\ root_dir = PyStr(dirname(abspath(path)))
      /\ domain = derive_domain(cfg)
      /\ subdomain = derive_subdomain(cfg, path)
      /\ sys_path = <<dirname(abspath(path))>>
      /\ session = "None"
      /\ local_current = [t \in Threads |-> t = 1]
      /\ last = [InitOp([given |-> TRUE, path |-> path]) EXCEPT
                   !.opened = TRUE, !.file = file]

OAuthInit ==
  /\ \E authorized_emails \in EmailStrings : RegisteredWith(authorized_emails)
  /\ OAuthOff

OAuthNext ==
  \/ ImportOAuth
  \/ sign_in
  \/ oauth2callback
  \/ catch_token
  \/ token_info_answer
  \/ user_info_answer
  \/ sign_out

\* the project component, before flasker.core.oauth is imported
ProjectStart == ProjectInit /\ OAuthOff

ProjectSpec == ProjectStart /\ [][ProjectNext]_vars

\* the sign-in component, on a registered project
OAuthSpec == OAuthInit /\ [][OAuthNext]_vars

-----------------------------------------------------------------------------
(* Claims about flasker/project.py, checked under ProjectSpec *)

\* the file has no PROJECT.NAME: no PROJECT section, no NAME key, or an empty NAME
MissingName(file) ==
  /\ file.readable
  /\ \/ "PROJECT" \notin DOMAIN file.content
     \/ "NAME" \notin DOMAIN file.content["PROJECT"]
     \/ file.content["PROJECT"]["NAME"] = <<>>

\* C4: an initialization from a file missing PROJECT.NAME (section absent, key
\* absent or value empty) raises ProjectImportError and nothing else, and the
\* project stays unregistered.
C4_MissingNameRaisesProjectImportError ==
  (last.op = "init" /\ last.opened /\ MissingName(last.file))
    => (last.raised = "ProjectImportError" /\ ~registered)

\* C5: once a construction has registered, a later construction, with no path
\* or with any path, opens no file, raises nothing and leaves config, root_dir,
\* domain and subdomain as the first construction set them.
C5_FirstRegistrationWins ==
  [][(registered /\ last'.op = "init")
       => /\ registered'
          /\ config' = config
          /\ root_dir' = root_dir
          /\ domain' = domain
          /\ subdomain' = subdomain
          /\ ~last'.opened
          /\ last'.raised = "none"]_vars

\* a construction after registration that was given a path in another directory
C5_Witness ==
  /\ registered
  /\ last.op = "init"
  /\ last.arg.given
  /\ ~last.opened
  /\ PyStr(dirname(abspath(last.arg.path))) # root_dir

MergedOverDefaults(cfg, conf) ==
  /\ DOMAIN cfg = DOMAIN DefaultConfig \cup DOMAIN conf
  /\ \A s \in DOMAIN cfg :
       IF s \notin DOMAIN conf THEN cfg[s] = DefaultConfig[s]
       ELSE IF s \notin DOMAIN DefaultConfig THEN cfg[s] = conf[s]
       ELSE /\ DOMAIN cfg[s] = DOMAIN DefaultConfig[s] \cup DOMAIN conf[s]
            /\ \A k \in DOMAIN cfg[s] :
                 cfg[s][k] = IF k \in DOMAIN conf[s] THEN conf[s][k]
                             ELSE DefaultConfig[s][k]

\* C9: the initialization that registers leaves config equal to its parsed file
\* merged over the compiled-in defaults: given keys take the file's value, other
\* keys of a known section and sections absent from the file keep their
\* defaults, an unknown section is added with the file's keys and values.
C9_FirstInitMergesOverDefaults ==
  [][(~registered /\ registered')
       => MergedOverDefaults(config', parsed(last'.file.content))]_vars

\* C10: resolving current_project yields a Project only when one is registered.
C10_ResolvedProjectIsRegistered ==
  (last.op = "resolve" /\ last.yielded) => registered

-----------------------------------------------------------------------------
(* Claims about flasker/core/oauth.py, checked under OAuthSpec *)

\* the token-info answer of this request has an error key
TokenRejected ==
  /\ Len(calls) >= 1
  /\ calls[1].status = "done"
  /\ "error" \in calls[1].keys

\* both calls of this request were answered and the user-info answer has an email
EmailResolved ==
  /\ Len(calls) = 2
  /\ calls[1].status = "done"
  /\ "error" \notin calls[1].keys
  /\ calls[2].status = "done"
  /\ "email" \in calls[2].keys

EmailUnauthorized == EmailResolved /\ calls[2].email \notin DOMAIN all

EmailAuthorized == EmailResolved /\ calls[2].email \in DOMAIN all

IsSignInPrompt(resp, args) ==
  /\ resp.kind = "render"
  /\ resp.template = "sign_in_out.html"
  /\ resp.sign_in_url = get_google_login_url(args)

\* C1: a catch_token request whose token-info answer has an error key, or whose
\* user-info email is no key of the directory, calls login_user never, leaves
\* the session identity as it was and answers with the sign-in prompt carrying
\* the authorization URL built for this request; for the unauthorized email a
\* warning naming it is logged.
C1_RejectedTokenCreatesNoSession ==
  [][(request'.handler = "catch_token" /\ pc' = "idle"
        /\ (TokenRejected' \/ EmailUnauthorized'))
       => /\ current_user' = current_user
          /\ flask_login' = <<>>
          /\ IsSignInPrompt(response', request'.args)
          /\ EmailUnauthorized' =>
               \E i \in DOMAIN log' :
                 log'[i] = LogEntry("warn", "%s tried to sign in.", calls'[2].email)]_vars

\* a served catch_token whose email differs from an authorized one only in case
\* or whitespace
C1_Witness ==
  /\ pc = "idle"
  /\ request.handler = "catch_token"
  /\ EmailUnauthorized
  /\ \E k \in DOMAIN all : lower(k) = lower(strip(calls[2].email))

\* C2: a catch_token request with a valid token and an authorized email leaves
\* that identity signed in and redirects to the state parameter, or to / when
\* the request carries no state parameter.
C2_AuthorizedRedirectsToStateOrRoot ==
  (pc = "idle" /\ request.handler = "catch_token" /\ EmailAuthorized)
    => /\ current_user = Identity(all[calls[2].email])
       /\ response = redirect(IF request.args.state = Absent THEN "/"
                              ELSE request.args.state)

AuthorizedEmailsValue == config["PROJECT"]["AUTHORIZED_EMAILS"].v

\* v[a..b] is an item of the comma-separated v without its surrounding spaces
IsStrippedItem(v, a, b) ==
  /\ a <= b
  /\ v[a] # " " /\ v[b] # " "
  /\ \A k \in a..b : v[k] # ","
  /\ \E i \in 1..a : /\ (i = 1 \/ v[i-1] = ",")
                     /\ \A k \in i..(a-1) : v[k] = " "
  /\ \E j \in b..Len(v) : /\ (j = Len(v) \/ v[j+1] = ",")
                          /\ \A k \in (b+1)..j : v[k] = " "

StrippedItems(v) ==
  { SubSeq(v, ab[1], ab[2]) :
      ab \in { x \in (1..Len(v)) \X (1..Len(v)) : IsStrippedItem(v, x[1], x[2]) } }

\* C7: after startup the directory's keys are the stripped non-empty items of
\* AUTHORIZED_EMAILS, each mapped to a User with that id; get_from_id finds
\* exactly those, matching case and whitespace exactly; no handler changes it.
C7_DirectoryIsStartupMapping ==
  started =>
    /\ DOMAIN all = StrippedItems(AuthorizedEmailsValue)
    /\ \A e \in DOMAIN all : all[e] = User(e)
    /\ \A e \in EmailAnswers \cup {lower(k) : k \in DOMAIN all} :
         get_from_id(e) = IF e \in StrippedItems(AuthorizedEmailsValue)
                          THEN [id |-> e, found |-> TRUE]
                          ELSE NoUser

\* a sign-in has been served from a list whose text has a space and a comma
C7_Witness ==
  /\ started
  /\ pc = "idle"
  /\ request.handler = "catch_token"
  /\ current_user.authenticated
  /\ " " \in Range(AuthorizedEmailsValue)
  /\ "," \in Range(AuthorizedEmailsValue)

\* C8: a request calls token-info at most once and user-info at most once, in
\* that order and with the request's token; user-info is called only after
\* token-info has answered without an error key, never while it is pending and
\* never after an answer with an error key.
C8_ProviderCallsAreOrdered ==
  /\ Len(calls) <= 2
  /\ calls # <<>> =>
       /\ calls[1].kind = "validate_token"
       /\ calls[1].token = request.args.access_token
  /\ Len(calls) = 2 =>
       /\ calls[2].kind = "get_user_info"
       /\ calls[2].token = calls[1].token
       /\ calls[1].status = "done"
       /\ "error" \notin calls[1].keys
  /\ pc = "validate_token" => (Len(calls) = 1 /\ calls[1].status = "pending")
  /\ pc = "get_user_info" => (Len(calls) = 2 /\ calls[2].status = "pending")

\* the user-info call is in flight, after a token-info answer without error
C8_Witness ==
  /\ pc = "get_user_info"
  /\ Len(calls) = 2
  /\ calls[1].status = "done"

====
